---- MODULE Spec2Model ----
(***************************************************************************)
(* Model of qiskit_metal/components/interconnects/anchored_path.py:        *)
(* the segment intersection test `intersecting`, and RouteAnchors'         *)
(* unobstructed, connect_simple and make.                                  *)
(*                                                                         *)
(* Coordinates are integers.  The leg planner halves coordinate sums       *)
(* (lines 206-214); its positions are therefore kept in half grid units:   *)
(* every start, end and anchor coordinate is an even number, so that the   *)
(* midpoints are exact integers, as they are exact in the code's floats.   *)
(* The divisions of `intersecting` are carried out in exact rational       *)
(* arithmetic on pairs <<numerator, denominator>>.                         *)
(***************************************************************************)
EXTENDS Integers, Sequences, FiniteSets, TLC

VARIABLES
    pc,                  \* position of the operation under way
    a, b, c, d,          \* intersecting: the four coordinates
    hit,                 \* intersecting: what the call returned
    segment,             \* unobstructed: the segment tested
    clear,               \* unobstructed: what the call returned
    components,          \* self.design.components: the bounding boxes
    avoid_collision,     \* options.advanced.avoid_collision
    start_pt, end_pt,    \* connect_simple: the two QRoutePoints
    leg,                 \* connect_simple: what the call returned
    anchors,             \* options.anchors, values in insertion order
    meander_start_point, \* make: self.set_lead("start")
    meander_end_point,   \* make: self.set_lead("end")
    intermediate_pts,    \* self.intermediate_pts
    coord_i,             \* make: index of the next anchor of the for loop
    calls,               \* make: the connect_simple calls issued so far
    rendered             \* make: what make_elements was handed

vars == <<pc, a, b, c, d, hit, segment, clear, components, avoid_collision,
          start_pt, end_pt, leg, anchors, meander_start_point,
          meander_end_point, intermediate_pts, coord_i, calls, rendered>>

\* Python's None.  It is falsy like the empty list, and make tells the two
\* apart nowhere (lines 261 and 267 test truthiness only).
None == <<>>

(***************************************************************************)
(* Bounds of the model.                                                    *)
(***************************************************************************)
\* intersecting: coordinates range over 0..MaxSegCoord
MaxSegCoord == 2
\* unobstructed: coordinates of the segment and of the box range over 0..MaxBoxCoord
MaxBoxCoord == 3
\* connect_simple: positions range over {0, 2, .., 2 * MaxLegCoord}
MaxLegCoord == 2
\* make: positions range over {0, 2, .., 2 * MaxMakeCoord}
MaxMakeCoord == 1
\* make: number of anchors
MaxAnchors == 2

(***************************************************************************)
(* Exact rational arithmetic: <<n, d>> stands for n / d.  A zero divisor   *)
(* leaves d = 0 (numpy's inf or nan); every division also reports whether  *)
(* its divisor was zero.                                                   *)
(***************************************************************************)
Rat(n) == <<n, 1>>

RNorm(p) == IF p[2] < 0 THEN <<-p[1], -p[2]>> ELSE p

RAdd(p, q) == RNorm(<<p[1] * q[2] + q[1] * p[2], p[2] * q[2]>>)

RSub(p, q) == RNorm(<<p[1] * q[2] - q[1] * p[2], p[2] * q[2]>>)

RMul(p, q) == RNorm(<<p[1] * q[1], p[2] * q[2]>>)

RDiv(p, q) == RNorm(<<p[1] * q[2], p[2] * q[1]>>)

RIsNan(p) == p[1] = 0 /\ p[2] = 0

RLe(p, q) == ~RIsNan(p) /\ ~RIsNan(q) /\ p[1] * q[2] <= q[1] * p[2]

REq(p, q) == ~RIsNan(p) /\ ~RIsNan(q) /\ p[1] * q[2] = q[1] * p[2]

IsZero(p) == p[1] = 0

min(x, y) == IF x <= y THEN x ELSE y

max(x, y) == IF x >= y THEN x ELSE y

(***************************************************************************)
(* intersecting(a, b, c, d), lines 30-87.  Each branch returns             *)
(* [value, zerodiv]: the boolean returned and whether a division executed  *)
(* on the way had a zero divisor.                                          *)
(***************************************************************************)
\* lines 48-54: both segments vertical
both_vertical(x0_start, y0_start, x0_end, y0_end, x1_start, y1_start, x1_end, y1_end) ==
    IF x0_end = x1_start
    THEN [value |-> ~((min(y0_start, y0_end) > max(y1_start, y1_end))
                      \/ (min(y1_start, y1_end) > max(y0_start, y0_end))),
          zerodiv |-> FALSE]
    ELSE [value |-> FALSE, zerodiv |-> FALSE]

\* lines 62-67: line 0 is the vertical one, line 1 is not
vertical_against(x0_start, y0_start, x0_end, y0_end, x1_start, y1_start, x1_end, y1_end) ==
    LET m == RDiv(Rat(y1_end - y1_start), Rat(x1_end - x1_start))
        b_ == RDiv(Rat(x1_end * y1_start - x1_start * y1_end), Rat(x1_end - x1_start))
        y == RAdd(RMul(m, Rat(x0_start)), b_)
    IN [value |-> /\ min(x1_start, x1_end) <= x0_start
                  /\ x0_start <= max(x1_start, x1_end)
                  /\ RLe(Rat(min(y0_start, y0_end)), y)
                  /\ RLe(y, Rat(max(y0_start, y0_end))),
        zerodiv |-> x1_end - x1_start = 0]

\* one_vertical with the exchange of names of lines 58-61 left out: a faulty variant
one_vertical_noswap(x0_start, y0_start, x0_end, y0_end, x1_start, y1_start, x1_end, y1_end) ==
    vertical_against(x0_start, y0_start, x0_end, y0_end,
                     x1_start, y1_start, x1_end, y1_end)

\* lines 55-67: exactly one segment is vertical
one_vertical(x0_start, y0_start, x0_end, y0_end, x1_start, y1_start, x1_end, y1_end) ==
    IF x1_start = x1_end
    THEN vertical_against(x1_start, y1_start, x1_end, y1_end,
                          x0_start, y0_start, x0_end, y0_end)
    ELSE vertical_against(x0_start, y0_start, x0_end, y0_end,
                          x1_start, y1_start, x1_end, y1_end)

\* lines 68-87: neither segment is vertical
neither_vertical(x0_start, y0_start, x0_end, y0_end, x1_start, y1_start, x1_end, y1_end) ==
    LET b0 == RDiv(Rat(y0_start * x0_end - y0_end * x0_start), Rat(x0_end - x0_start))
        b1 == RDiv(Rat(y1_start * x1_end - y1_end * x1_start), Rat(x1_end - x1_start))
        zd01 == (x0_end - x0_start = 0) \/ (x1_end - x1_start = 0)
    IN IF (x1_end - x1_start) * (y0_end - y0_start) = (x0_end - x0_start) * (y1_end - y1_start)
       THEN IF REq(b0, b1)
            THEN [value |-> ~((min(x0_start, x0_end) > max(x1_start, x1_end))
                              \/ (min(x1_start, x1_end) > max(x0_start, x0_end))),
                  zerodiv |-> zd01]
            ELSE [value |-> FALSE, zerodiv |-> zd01]
       ELSE LET m0 == RDiv(Rat(y0_end - y0_start), Rat(x0_end - x0_start))
                m1 == RDiv(Rat(y1_end - y1_start), Rat(x1_end - x1_start))
                x_intersect == RDiv(RSub(b1, b0), RSub(m0, m1))
            IN [value |-> /\ RLe(Rat(min(x0_start, x0_end)), x_intersect)
                          /\ RLe(x_intersect, Rat(max(x0_start, x0_end)))
                          /\ RLe(Rat(min(x1_start, x1_end)), x_intersect)
                          /\ RLe(x_intersect, Rat(max(x1_start, x1_end))),
                zerodiv |-> zd01 \/ IsZero(RSub(m0, m1))]

\* lines 30-87
intersecting(pa, pb, pc_, pd) ==
    LET x0_start == pa[1]
        y0_start == pa[2]
        x0_end == pb[1]
        y0_end == pb[2]
        x1_start == pc_[1]
        y1_start == pc_[2]
        x1_end == pd[1]
        y1_end == pd[2]
    IN IF (x0_start = x0_end) /\ (x1_start = x1_end)
       THEN both_vertical(x0_start, y0_start, x0_end, y0_end,
                          x1_start, y1_start, x1_end, y1_end)
       ELSE IF (x0_start = x0_end) \/ (x1_start = x1_end)
       THEN one_vertical(x0_start, y0_start, x0_end, y0_end,
                         x1_start, y1_start, x1_end, y1_end)
       ELSE neither_vertical(x0_start, y0_start, x0_end, y0_end,
                             x1_start, y1_start, x1_end, y1_end)

(***************************************************************************)
(* RouteAnchors.unobstructed, lines 118-142.  A component's bounding box   *)
(* is <<xmin, ymin, xmax, ymax>>, what qgeometry_bounds() returns.         *)
(***************************************************************************)
\* lines 132-138: the pairs (k, l) of corners the segment is tested against
box_edges(box) ==
    LET p == <<box[1], box[2]>>
        q == <<box[1], box[4]>>
        r == <<box[3], box[2]>>
        s == <<box[3], box[4]>>
    IN {<<p, q>>, <<p, r>>, <<r, s>>, <<q, s>>}

\* line 138: any(intersecting(segment[0], segment[1], k, l) for k, l in ..)
box_blocks(seg, box) ==
    \E kl \in box_edges(box) : intersecting(seg[1], seg[2], kl[1], kl[2]).value

\* lines 131-142
unobstructed(seg, comps) ==
    \A i \in 1..Len(comps) : ~box_blocks(seg, comps[i])

(***************************************************************************)
(* RouteAnchors.connect_simple, lines 144-239.  A QRoutePoint is           *)
(* [position, direction], the direction a vector or None.  The result is   *)
(* [path, step]: the list returned and the return statement that           *)
(* returned it ("none" is the return [] of line 239).                      *)
(***************************************************************************)
dot(u, v) == u[1] * v[1] + u[2] * v[2]

minus(u, v) == <<u[1] - v[1], u[2] - v[2]>>

abs(x) == IF x < 0 THEN -x ELSE x

\* (x + y) / 2 of lines 206-214, exact on the even sums of half-unit coordinates
Half(n) == n \div 2

NoReturn == [path |-> <<>>, step |-> "none"]

\* lines 167-173
stop_direction(start, end) ==
    LET offsetx == abs(end[1] - start[1])
        offsety == abs(end[2] - start[2])
    IN IF offsetx >= offsety
       THEN <<end[1] - start[1], 0>>
       ELSE <<0, end[2] - start[2]>>

\* line 188
corner1(start, end) == <<start[1], end[2]>>

\* line 189
corner2(start, end) == <<end[1], start[2]>>

\* corner3 on the bisector of the other axis (corner5's): a faulty variant
corner3_other_axis(start, end) ==
    IF stop_direction(start, end)[1] # 0
    THEN <<start[1], Half(start[2] + end[2])>>
    ELSE <<Half(start[1] + end[1]), start[2]>>

\* lines 205-206, 211
corner3(start, end) ==
    IF stop_direction(start, end)[1] # 0
    THEN <<Half(start[1] + end[1]), start[2]>>
    ELSE <<start[1], Half(start[2] + end[2])>>

\* lines 205, 207, 212
corner4(start, end) ==
    IF stop_direction(start, end)[1] # 0
    THEN <<Half(start[1] + end[1]), end[2]>>
    ELSE <<end[1], Half(start[2] + end[2])>>

\* lines 205, 208, 213
corner5(start, end) ==
    IF stop_direction(start, end)[1] # 0
    THEN <<start[1], Half(start[2] + end[2])>>
    ELSE <<Half(start[1] + end[1]), start[2]>>

\* lines 205, 209, 214
corner6(start, end) ==
    IF stop_direction(start, end)[1] # 0
    THEN <<end[1], Half(start[2] + end[2])>>
    ELSE <<Half(start[1] + end[1]), end[2]>>

\* lines 190-195, 215-219: every segment of the polyline is unobstructed,
\* or avoid_collision is off
polyline_clear(pts, avoid, comps) ==
    avoid => \A i \in 1..(Len(pts) - 1) : unobstructed(<<pts[i], pts[i + 1]>>, comps)

\* direct_leg with the sign of the end test of line 179 turned: a faulty variant
direct_leg_end_aligned(start, start_direction, end, end_direction) ==
    IF dot(start_direction, minus(end, start)) >= 0
       /\ ((end_direction = None) \/ (dot(minus(end, start), end_direction) >= 0))
    THEN [path |-> <<start, end>>, step |-> "direct"]
    ELSE NoReturn

\* lines 177-181
direct_leg(start, start_direction, end, end_direction) ==
    IF dot(start_direction, minus(end, start)) >= 0
       /\ ((end_direction = None) \/ (dot(minus(end, start), end_direction) <= 0))
    THEN [path |-> <<start, end>>, step |-> "direct"]
    ELSE NoReturn

\* lines 196-201: the if / elif pair of the perfectly aligned L shapes
perfect_L(start, start_direction, end, end_direction, startc1end, startc2end) ==
    LET c1 == corner1(start, end)
        c2 == corner2(start, end)
    IN IF (dot(start_direction, minus(c1, start)) > 0) /\ startc1end
       THEN IF (end_direction = None) \/ (dot(end_direction, minus(c1, end)) > 0)
            THEN [path |-> <<start, c1, end>>, step |-> "perfect_L_corner1"]
            ELSE NoReturn
       ELSE IF (dot(start_direction, minus(c2, start)) > 0) /\ startc2end
       THEN IF (end_direction = None) \/ (dot(end_direction, minus(c2, end)) > 0)
            THEN [path |-> <<start, c2, end>>, step |-> "perfect_L_corner2"]
            ELSE NoReturn
       ELSE NoReturn

\* line 220: the test of the perfectly aligned S shape on the start direction
perfect_S_start(start, start_direction, end) ==
    /\ dot(start_direction, stop_direction(start, end)) < 0
    /\ dot(start_direction, minus(corner3(start, end), start)) > 0

\* lines 220-223
perfect_S(start, start_direction, end, end_direction, startc3c4end) ==
    LET c3 == corner3(start, end)
        c4 == corner4(start, end)
    IN IF perfect_S_start(start, start_direction, end) /\ startc3c4end
          /\ ((end_direction = None) \/ (dot(end_direction, minus(c4, end)) > 0))
       THEN [path |-> <<start, c3, c4, end>>, step |-> "perfect_S"]
       ELSE NoReturn

\* relaxed with the S shapes returned without their last vertex: a faulty variant
relaxed_S_short(start, start_direction, end, end_direction, startc1end, startc2end, startc3c4end, startc5c6end) ==
    LET c1 == corner1(start, end)
        c2 == corner2(start, end)
        c3 == corner3(start, end)
        c4 == corner4(start, end)
        c5 == corner5(start, end)
        c6 == corner6(start, end)
        free == end_direction = None
    IN IF (dot(start_direction, minus(c1, start)) >= 0) /\ startc1end
          /\ (free \/ (dot(end_direction, minus(c1, end)) >= 0))
       THEN [path |-> <<start, c1, end>>, step |-> "relaxed_L_corner1"]
       ELSE IF (dot(start_direction, minus(c2, start)) >= 0) /\ startc2end
          /\ (free \/ (dot(end_direction, minus(c2, end)) >= 0))
       THEN [path |-> <<start, c2, end>>, step |-> "relaxed_L_corner2"]
       ELSE IF (dot(start_direction, minus(c3, start)) >= 0) /\ startc3c4end
          /\ (free \/ (dot(end_direction, minus(c4, end)) >= 0))
       THEN [path |-> <<start, c3, c4>>, step |-> "relaxed_S_corner34"]
       ELSE IF (dot(start_direction, minus(c5, start)) >= 0) /\ startc5c6end
          /\ (free \/ (dot(end_direction, minus(c6, end)) >= 0))
       THEN [path |-> <<start, c5, c6>>, step |-> "relaxed_S_corner56"]
       ELSE NoReturn

\* lines 227-238
relaxed(start, start_direction, end, end_direction, startc1end, startc2end, startc3c4end, startc5c6end) ==
    LET c1 == corner1(start, end)
        c2 == corner2(start, end)
        c3 == corner3(start, end)
        c4 == corner4(start, end)
        c5 == corner5(start, end)
        c6 == corner6(start, end)
        free == end_direction = None
    IN IF (dot(start_direction, minus(c1, start)) >= 0) /\ startc1end
          /\ (free \/ (dot(end_direction, minus(c1, end)) >= 0))
       THEN [path |-> <<start, c1, end>>, step |-> "relaxed_L_corner1"]
       ELSE IF (dot(start_direction, minus(c2, start)) >= 0) /\ startc2end
          /\ (free \/ (dot(end_direction, minus(c2, end)) >= 0))
       THEN [path |-> <<start, c2, end>>, step |-> "relaxed_L_corner2"]
       ELSE IF (dot(start_direction, minus(c3, start)) >= 0) /\ startc3c4end
          /\ (free \/ (dot(end_direction, minus(c4, end)) >= 0))
       THEN [path |-> <<start, c3, c4, end>>, step |-> "relaxed_S_corner34"]
       ELSE IF (dot(start_direction, minus(c5, start)) >= 0) /\ startc5c6end
          /\ (free \/ (dot(end_direction, minus(c6, end)) >= 0))
       THEN [path |-> <<start, c5, c6, end>>, step |-> "relaxed_S_corner56"]
       ELSE NoReturn

\* lines 156-239
connect_simple(spt, ept, avoid, comps) ==
    LET start_direction == spt.direction
        start == spt.position
        end_direction == ept.direction
        end == ept.position
    IN IF (start[1] = end[1]) \/ (start[2] = end[2])
       THEN direct_leg(start, start_direction, end, end_direction)
       ELSE LET startc1end == polyline_clear(<<start, corner1(start, end), end>>, avoid, comps)
                startc2end == polyline_clear(<<start, corner2(start, end), end>>, avoid, comps)
                startc3c4end == polyline_clear(<<start, corner3(start, end),
                                                 corner4(start, end), end>>, avoid, comps)
                startc5c6end == polyline_clear(<<start, corner5(start, end),
                                                 corner6(start, end), end>>, avoid, comps)
                L == perfect_L(start, start_direction, end, end_direction,
                               startc1end, startc2end)
                S == perfect_S(start, start_direction, end, end_direction, startc3c4end)
            IN IF L # NoReturn THEN L
               ELSE IF S # NoReturn THEN S
               ELSE relaxed(start, start_direction, end, end_direction,
                            startc1end, startc2end, startc3c4end, startc5c6end)

(***************************************************************************)
(* RouteAnchors.make, lines 241-273, and what it uses of QRoute.           *)
(***************************************************************************)
\* lst[1:]
Rest(lst) == IF lst = <<>> THEN <<>> ELSE Tail(lst)

\* QRoutePoint(position, direction=None)
QRoutePoint(position, direction) == [position |-> position, direction |-> direction]

\* QRoute.get_tip: the last point placed and the direction it was reached
\* from; the end of the lead-in while no point has been placed
get_tip(head, pts) ==
    IF pts = <<>>
    THEN head
    ELSE LET n == Len(pts)
             tip_pt == pts[n]
             tip_pt_minus == IF n > 1 THEN pts[n - 1] ELSE head.position
         IN QRoutePoint(tip_pt, minus(tip_pt, tip_pt_minus))

\* QRoute.get_points: the vertices of the route, the start of the meander first
get_points(head, pts) == <<head.position>> \o pts

\* lines 245-258
MakeBegin ==
    /\ pc = "make"
    /\ intermediate_pts' = None
    /\ coord_i' = 1
    /\ pc' = "anchors"
    /\ UNCHANGED <<a, b, c, d, hit, segment, clear, components, avoid_collision,
                   start_pt, end_pt, leg, anchors, meander_start_point,
                   meander_end_point, calls, rendered>>

\* lines 260-264: one pass of the for loop
MakeAnchorLeg ==
    /\ pc = "anchors"
    /\ coord_i <= Len(anchors)
    /\ LET coord == anchors[coord_i]
           from == IF intermediate_pts = <<>>
                   THEN meander_start_point
                   ELSE get_tip(meander_start_point, intermediate_pts)
           to == QRoutePoint(coord, None)
           got == connect_simple(from, to, avoid_collision, components)
       IN /\ intermediate_pts' = IF intermediate_pts = <<>>
                                 THEN Rest(got.path)
                                 ELSE intermediate_pts \o Rest(got.path)
          /\ calls' = Append(calls, [start |-> from, end |-> to, path |-> got.path])
    /\ coord_i' = coord_i + 1
    /\ UNCHANGED <<pc, a, b, c, d, hit, segment, clear, components, avoid_collision,
                   start_pt, end_pt, leg, anchors, meander_start_point,
                   meander_end_point, rendered>>

\* lines 266-270
MakeLastLeg ==
    /\ pc = "anchors"
    /\ coord_i > Len(anchors)
    /\ LET from == get_tip(meander_start_point, intermediate_pts)
           got == connect_simple(from, meander_end_point, avoid_collision, components)
           last_pt == Rest(got.path)
       IN /\ intermediate_pts' = IF intermediate_pts # <<>>
                                 THEN intermediate_pts \o last_pt
                                 ELSE last_pt
          /\ calls' = Append(calls, [start |-> from, end |-> meander_end_point,
                                     path |-> got.path])
    /\ pc' = "elements"
    /\ UNCHANGED <<a, b, c, d, hit, segment, clear, components, avoid_collision,
                   start_pt, end_pt, leg, anchors, meander_start_point,
                   meander_end_point, coord_i, rendered>>

\* line 273
MakeElements ==
    /\ pc = "elements"
    /\ rendered' = Append(rendered, get_points(meander_start_point, intermediate_pts))
    /\ pc' = "done"
    /\ UNCHANGED <<a, b, c, d, hit, segment, clear, components, avoid_collision,
                   start_pt, end_pt, leg, anchors, meander_start_point,
                   meander_end_point, intermediate_pts, coord_i, calls>>

(***************************************************************************)
(* One call of each of the three functions.                                *)
(***************************************************************************)
CallIntersecting ==
    /\ pc = "intersecting"
    /\ hit' = intersecting(a, b, c, d)
    /\ pc' = "done"
    /\ UNCHANGED <<a, b, c, d, segment, clear, components, avoid_collision,
                   start_pt, end_pt, leg, anchors, meander_start_point,
                   meander_end_point, intermediate_pts, coord_i, calls, rendered>>

CallUnobstructed ==
    /\ pc = "unobstructed"
    /\ clear' = unobstructed(segment, components)
    /\ pc' = "done"
    /\ UNCHANGED <<a, b, c, d, hit, segment, components, avoid_collision,
                   start_pt, end_pt, leg, anchors, meander_start_point,
                   meander_end_point, intermediate_pts, coord_i, calls, rendered>>

CallConnectSimple ==
    /\ pc = "connect_simple"
    /\ leg' = connect_simple(start_pt, end_pt, avoid_collision, components)
    /\ pc' = "done"
    /\ UNCHANGED <<a, b, c, d, hit, segment, clear, components, avoid_collision,
                   start_pt, end_pt, anchors, meander_start_point,
                   meander_end_point, intermediate_pts, coord_i, calls, rendered>>

(***************************************************************************)
(* The inputs.                                                             *)
(***************************************************************************)
Grid(n) == (0..n) \X (0..n)

EvenGrid(n) == {<<2 * x, 2 * y>> : x \in 0..n, y \in 0..n}

\* direction vectors: the four axes and the four diagonals
Directions == ((-1..1) \X (-1..1)) \ {<<0, 0>>}

\* the four axes
AxisDirections == {<<1, 0>>, <<-1, 0>>, <<0, 1>>, <<0, -1>>}

\* well-formed boxes <<xmin, ymin, xmax, ymax>> with corners on the given coordinates
Boxes(coords) ==
    {<<x1, y1, x2, y2>> : x1 \in coords, y1 \in coords, x2 \in coords, y2 \in coords}
      \cap {bx \in coords \X coords \X coords \X coords : bx[1] <= bx[3] /\ bx[2] <= bx[4]}

\* at most one component
UpToOne(boxes) == {<<>>} \cup {<<bx>> : bx \in boxes}

\* anchors: lists of at most n positions
RECURSIVE Lists(_, _)
Lists(S, n) ==
    IF n = 0 THEN {<<>>}
    ELSE Lists(S, n - 1) \cup {Append(l, x) : l \in {k \in Lists(S, n - 1) : Len(k) = n - 1}, x \in S}

IdleIntersecting ==
    /\ a = <<0, 0>> /\ b = <<0, 0>> /\ c = <<0, 0>> /\ d = <<0, 0>>
    /\ hit = [value |-> FALSE, zerodiv |-> FALSE]

IdleUnobstructed ==
    /\ segment = <<<<0, 0>>, <<0, 0>>>>
    /\ clear = FALSE

IdleConnectSimple ==
    /\ start_pt = QRoutePoint(<<0, 0>>, <<1, 0>>)
    /\ end_pt = QRoutePoint(<<0, 0>>, None)
    /\ leg = NoReturn

IdleMake ==
    /\ anchors = <<>>
    /\ meander_start_point = QRoutePoint(<<0, 0>>, <<1, 0>>)
    /\ meander_end_point = QRoutePoint(<<0, 0>>, <<1, 0>>)
    /\ intermediate_pts = None
    /\ coord_i = 1
    /\ calls = <<>>
    /\ rendered = <<>>

InitIntersecting ==
    /\ pc = "intersecting"
    /\ a \in Grid(MaxSegCoord) /\ b \in Grid(MaxSegCoord)
    /\ c \in Grid(MaxSegCoord) /\ d \in Grid(MaxSegCoord)
    /\ hit = [value |-> FALSE, zerodiv |-> FALSE]
    /\ components = <<>> /\ avoid_collision = FALSE
    /\ IdleUnobstructed /\ IdleConnectSimple /\ IdleMake

InitUnobstructed ==
    /\ pc = "unobstructed"
    \* the callers, lines 192-217, pass segments of two distinct points
    /\ segment \in {sg \in Grid(MaxBoxCoord) \X Grid(MaxBoxCoord) : sg[1] # sg[2]}
    /\ components \in UpToOne(Boxes(0..MaxBoxCoord))
    /\ clear = FALSE
    /\ avoid_collision = TRUE
    /\ IdleIntersecting /\ IdleConnectSimple /\ IdleMake

\* the boxes of the leg planner's runs: corners on the odd half units
LegBoxes == Boxes({2 * k + 1 : k \in 0..(MaxLegCoord - 1)})

InitConnectSimple ==
    /\ pc = "connect_simple"
    /\ start_pt \in {QRoutePoint(p, v) : p \in EvenGrid(MaxLegCoord), v \in Directions}
    /\ end_pt \in {QRoutePoint(p, v) : p \in EvenGrid(MaxLegCoord),
                                      v \in Directions \cup {None}}
    /\ avoid_collision \in BOOLEAN
    /\ components \in UpToOne(LegBoxes)
    /\ leg = NoReturn
    /\ IdleIntersecting /\ IdleUnobstructed /\ IdleMake

\* the boxes of make's runs: corners on the odd half units
MakeBoxes == Boxes({2 * k + 1 : k \in 0..MaxMakeCoord})

InitMake ==
    /\ pc = "make"
    /\ anchors \in Lists(EvenGrid(MaxMakeCoord), MaxAnchors)
    /\ meander_start_point \in {QRoutePoint(p, v) : p \in EvenGrid(MaxMakeCoord),
                                                    v \in AxisDirections}
    /\ meander_end_point \in {QRoutePoint(p, v) : p \in EvenGrid(MaxMakeCoord),
                                                  v \in AxisDirections}
    /\ avoid_collision \in BOOLEAN
    /\ components \in UpToOne(MakeBoxes)
    /\ intermediate_pts = None
    /\ coord_i = 1
    /\ calls = <<>>
    /\ rendered = <<>>
    /\ IdleIntersecting /\ IdleUnobstructed /\ IdleConnectSimple

NextIntersecting == CallIntersecting

NextUnobstructed == CallUnobstructed

NextConnectSimple == CallConnectSimple

NextMake == MakeBegin \/ MakeAnchorLeg \/ MakeLastLeg \/ MakeElements

Init == InitIntersecting \/ InitUnobstructed \/ InitConnectSimple \/ InitMake

Next == CallIntersecting \/ CallUnobstructed \/ CallConnectSimple
          \/ MakeBegin \/ MakeAnchorLeg \/ MakeLastLeg \/ MakeElements

\* every operation, each from its own inputs
Spec == Init /\ [][Next]_vars

\* intersecting alone
SpecIntersecting == InitIntersecting /\ [][NextIntersecting]_vars

\* unobstructed alone
SpecUnobstructed == InitUnobstructed /\ [][NextUnobstructed]_vars

\* connect_simple alone
SpecConnectSimple == InitConnectSimple /\ [][NextConnectSimple]_vars

\* make alone
SpecMake == InitMake /\ [][NextMake]_vars

(***************************************************************************)
(* Geometry the claims are stated against, free of divisions: the sign of  *)
(* cross products decides on which side of a line a point lies.            *)
(***************************************************************************)
Cross(o, p, q) == (p[1] - o[1]) * (q[2] - o[2]) - (p[2] - o[2]) * (q[1] - o[1])

\* r lies in the bounding box of p and q
Within(p, q, r) ==
    /\ min(p[1], q[1]) <= r[1] /\ r[1] <= max(p[1], q[1])
    /\ min(p[2], q[2]) <= r[2] /\ r[2] <= max(p[2], q[2])

\* segments p1p2 and p3p4 have a point in common
SegmentsMeet(p1, p2, p3, p4) ==
    LET d1 == Cross(p3, p4, p1)
        d2 == Cross(p3, p4, p2)
        d3 == Cross(p1, p2, p3)
        d4 == Cross(p1, p2, p4)
    IN \/ (d1 * d2 < 0 /\ d3 * d4 < 0)
       \/ (d1 = 0 /\ Within(p3, p4, p1))
       \/ (d2 = 0 /\ Within(p3, p4, p2))
       \/ (d3 = 0 /\ Within(p1, p2, p3))
       \/ (d4 = 0 /\ Within(p1, p2, p4))

\* the point lies in the rectangle, boundary included
InBox(pt, box) ==
    /\ box[1] <= pt[1] /\ pt[1] <= box[3]
    /\ box[2] <= pt[2] /\ pt[2] <= box[4]

\* the segment meets one of the four sides of the rectangle
MeetsBoundary(seg, box) ==
    LET p == <<box[1], box[2]>>
        q == <<box[1], box[4]>>
        r == <<box[3], box[2]>>
        s == <<box[3], box[4]>>
    IN \/ SegmentsMeet(seg[1], seg[2], p, q)
       \/ SegmentsMeet(seg[1], seg[2], p, r)
       \/ SegmentsMeet(seg[1], seg[2], r, s)
       \/ SegmentsMeet(seg[1], seg[2], q, s)

\* the segment has a point in common with the rectangle, boundary or interior
MeetsBox(seg, box) == InBox(seg[1], box) \/ InBox(seg[2], box) \/ MeetsBoundary(seg, box)

\* no two equal consecutive points
NoRepeat(pts) == \A i \in 1..(Len(pts) - 1) : pts[i] # pts[i + 1]

\* start and end share an x or a y coordinate (line 175)
Collinear(p, q) == (p[1] = q[1]) \/ (p[2] = q[2])

\* the vertices the first n calls contributed: each leg's but its first
RECURSIVE Contributed(_, _)
Contributed(cs, n) ==
    IF n = 0 THEN <<>> ELSE Contributed(cs, n - 1) \o Rest(cs[n].path)

\* sub occurs in lst in order, from index i of sub and index j of lst on
RECURSIVE InOrderFrom(_, _, _, _)
InOrderFrom(sub, lst, i, j) ==
    IF i > Len(sub) THEN TRUE
    ELSE IF j > Len(lst) THEN FALSE
    ELSE IF sub[i] = lst[j] THEN InOrderFrom(sub, lst, i + 1, j + 1)
    ELSE InOrderFrom(sub, lst, i, j + 1)

Last(lst) == lst[Len(lst)]

(***************************************************************************)
(* The claims.                                                             *)
(***************************************************************************)

\* C1: with avoid_collision set, every segment of every non-empty path
\* connect_simple returns passes unobstructed; in particular the direct
\* 2-point path is not returned across an obstacle.
C1_ReturnedPathUnobstructed ==
    (pc = "done" /\ avoid_collision /\ leg.path # <<>>)
        => \A i \in 1..(Len(leg.path) - 1) :
               unobstructed(<<leg.path[i], leg.path[i + 1]>>, components)

\* C2: intersecting(a, b, c, d) divides by zero for no input, zero-length
\* segments included, returns true exactly when the two segments have a
\* point in common, and returns the same for (c, d, a, b).
C2_IntersectingExact ==
    pc = "done" =>
        /\ ~hit.zerodiv
        /\ hit.value = SegmentsMeet(a, b, c, d)
        /\ hit.value = intersecting(c, d, a, b).value

\* C2's case: a zero-length segment a = b touching a slanted segment cd
C2_Witness ==
    /\ pc = "done"
    /\ a = b /\ c[1] # d[1] /\ c[2] # d[2] /\ a # c /\ a # d
    /\ hit.value

\* C3: unobstructed returns false whenever the segment has a point in common
\* with some component's bounding rectangle, interior included, and true
\* only if it has none with any.
C3_UnobstructedMeansDisjoint ==
    pc = "done" =>
        (clear = (\A i \in 1..Len(components) : ~MeetsBox(segment, components[i])))

\* C4: once a connect_simple call of make has returned the empty path, no
\* further leg is planned and nothing is handed to make_elements.
C4_EmptyLegEndsBuild ==
    \A i \in 1..Len(calls) :
        calls[i].path = <<>> => (i = Len(calls) /\ rendered = <<>>)

\* C5: make over N anchors issues N + 1 connect_simple calls, one to each
\* anchor in order from the current tip and one to meander_end; the
\* accumulated vertices are the legs' vertices less each leg's first, hold
\* every anchor in the caller's order and end at meander_end's position.
C5_LegsInAnchorOrder ==
    pc = "done" =>
        LET N == Len(anchors)
        IN /\ Len(calls) = N + 1
           /\ \A i \in 1..N : calls[i].end = QRoutePoint(anchors[i], None)
           /\ calls[N + 1].end = meander_end_point
           /\ \A i \in 1..(N + 1) :
                  calls[i].start.position =
                      Last(<<meander_start_point.position>> \o Contributed(calls, i - 1))
           /\ intermediate_pts = Contributed(calls, N + 1)
           /\ InOrderFrom(anchors, intermediate_pts, 1, 1)
           /\ Last(Last(rendered)) = meander_end_point.position

\* C6: every non-empty path p0..pk of connect_simple has
\* dot(start.direction, p1 - p0) >= 0 and, when end.direction is present,
\* dot(end.direction, p(k-1) - pk) >= 0.
C6_DirectionsRespected ==
    (pc = "done" /\ leg.path # <<>>) =>
        LET p == leg.path
            k == Len(p)
        IN /\ dot(start_pt.direction, minus(p[2], p[1])) >= 0
           /\ (end_pt.direction # None
                 => dot(end_pt.direction, minus(p[k - 1], p[k])) >= 0)

\* C6's case: a direct path returned under an end direction that is not
\* perpendicular to it
C6_Witness ==
    /\ pc = "done"
    /\ leg.step = "direct"
    /\ end_pt.direction # None
    /\ start_pt.position # end_pt.position
    /\ dot(end_pt.direction, minus(start_pt.position, end_pt.position)) > 0

\* C7: a non-empty path of connect_simple starts at start.position and ends
\* at end.position.
C7_EndpointsExact ==
    (pc = "done" /\ leg.path # <<>>) =>
        /\ leg.path[1] = start_pt.position
        /\ Last(leg.path) = end_pt.position

\* C7's case: a 4-point path has been returned
C7_Witness ==
    /\ pc = "done"
    /\ Len(leg.path) = 4
    /\ leg.step = "relaxed_S_corner56"

\* C8: connect_simple returns the first shape of the fixed order whose
\* conditions hold; in particular, for any start direction, when the perfect
\* L via corner1 is not accepted and the perfect L via corner2 meets its
\* strict start, strict end and collision conditions, the result is
\* [start, corner2, end].
C8_PerfectCorner2Preferred ==
    LET start == start_pt.position
        end == end_pt.position
        sd == start_pt.direction
        ed == end_pt.direction
        c1 == corner1(start, end)
        c2 == corner2(start, end)
        accepted1 == /\ dot(sd, minus(c1, start)) > 0
                     /\ (ed = None \/ dot(ed, minus(c1, end)) > 0)
                     /\ polyline_clear(<<start, c1, end>>, avoid_collision, components)
        holds2 == /\ dot(sd, minus(c2, start)) > 0
                  /\ (ed = None \/ dot(ed, minus(c2, end)) > 0)
                  /\ polyline_clear(<<start, c2, end>>, avoid_collision, components)
    IN (pc = "done" /\ ~Collinear(start, end) /\ ~accepted1 /\ holds2)
           => leg.path = <<start, c2, end>>

\* C9: no path has two equal consecutive points: neither a path
\* connect_simple returns nor the vertex list make accumulates.
C9_NoConsecutiveDuplicates ==
    /\ \A i \in 1..Len(calls) : NoRepeat(calls[i].path)
    /\ NoRepeat(intermediate_pts)

\* C10: for start and end sharing no coordinate the two start tests of the
\* perfect S shape are never both true, so every 4-point path comes from
\* the relaxed steps.
C10_PerfectSNeverTaken ==
    (pc = "done" /\ ~Collinear(start_pt.position, end_pt.position)) =>
        /\ ~perfect_S_start(start_pt.position, start_pt.direction, end_pt.position)
        /\ leg.step # "perfect_S"
        /\ (Len(leg.path) = 4
              => leg.step \in {"relaxed_S_corner34", "relaxed_S_corner56"})

\* C10's case: a 4-point path returned for a start direction opposing
\* stop_direction, the first of the two tests of the perfect S shape
C10_Witness ==
    /\ pc = "done"
    /\ Len(leg.path) = 4
    /\ dot(start_pt.direction,
           stop_direction(start_pt.position, end_pt.position)) < 0

====
